---- MODULE Spec2Model ----
(***************************************************************************)
(* The node runtime of plumcast (src/src/node.rs): one Node per member of  *)
(* Nodes, each owning a HyParView membership engine, a Plumtree broadcast  *)
(* engine, an inbox (message_rx), a sequence counter and the queue of      *)
(* deliverable messages.  Nodes exchange RpcMessages through the service   *)
(* (registry + transport).  Node::poll is cut at every read of the inbox,   *)
(* which the cast handlers fill concurrently with a poll; what poll does   *)
(* between two reads touches the node alone and is one step.               *)
(*                                                                         *)
(* The two engines are external crates and the service registry is not in  *)
(* src/: they are modelled from the interface the specification gives them.*)
(***************************************************************************)
EXTENDS Bags, FiniteSets, Integers, Sequences, TLC

\* ---------------------------------------------------------------- bounds
Nodes == {1, 2}

\* the nodes of the five-node cluster of the tree-repair scenario
TreeNodes == 1..5

\* at most this many join calls, broadcast calls, node drops and casts that
\* the transport delivers twice in a run
MaxJoins == 1
MaxBroadcasts == 2
MaxDrops == 1
MaxDups == 1
MaxInjects == 2

\* message_seqno is a u64; the model keeps this many bits of it
SeqnoBits == 2

VARIABLES
    registry,              \* service: the local-ids that map to an inbox
    net,                   \* transport: bag of casts in flight [dst, msg, peer]
    message_rx,            \* Node.message_rx: the inbox, per node
    hyparview_node,        \* Node.hyparview_node: [active, q]
    plumtree_node,         \* Node.plumtree_node: [eager, lazy, received, missing, q]
    message_seqno,         \* Node.message_seqno
    deliverable_messages,  \* Node.deliverable_messages
    pc,                    \* where each node's owner is: idle, rx (in poll, at message_rx.poll()), leave, dropped
    did_something,         \* poll's local variable
    result,                \* what the node's last poll returned: None, Ready, Pending (Running inside poll)
    returned,              \* history: the ids poll has returned to the application
    submitted,             \* history: the ids handed to broadcast_message
    downs,                 \* history: the peers passed to handle_neighbor_down
    evicted,               \* history: peers with a NeighborDown generated and no later NeighborUp
    leaveView,             \* history: the active view when the node was dropped
    quiet,                 \* history: the running poll was called with nothing to do, and nothing arrived since
    downPendingAtPoll,     \* history: plumtree poll_action was called with a NeighborDown waiting
    returnedWithDown,      \* history: a poll returned with a NeighborDown waiting in the membership engine
    gossipToEvicted,       \* history: <<n, p>>: n handed the transport a gossip for its evicted peer p
    cluster,               \* history: per submitted id, the nodes connected to the origin then
    njoins,                \* number of join calls so far
    ndups,                 \* number of casts delivered twice so far
    ninjected,             \* number of casts crafted by a foreign peer so far
    closed,                \* the node's inbox channel has no sender left (its service is gone)
    drawn                  \* history: the ids of the Deliver actions drawn from plumtree_node.poll_action

vars == <<registry, net, message_rx, hyparview_node, plumtree_node, message_seqno,
          deliverable_messages, pc, did_something, result, returned, submitted,
          downs, evicted, leaveView, quiet, downPendingAtPoll, returnedWithDown,
          gossipToEvicted, cluster, njoins, ndups,
                   ninjected, closed, drawn>>

\* ---------------------------------------------------------------- data
NoId == <<0, 0>>
NoMsg == [proto |-> "none", kind |-> "none", sender |-> 0, id |-> NoId]

\* MessageId { node_id, seqno }
MessageId(n, s) == <<n, s>>

\* RpcMessage::Hyparview(m) / RpcMessage::Plumtree(m)
HvMsg(kind, s) == [proto |-> "hyparview", kind |-> kind, sender |-> s, id |-> NoId]
PtMsg(kind, s, id) == [proto |-> "plumtree", kind |-> kind, sender |-> s, id |-> id]

\* a cast on the wire: (local-id, message), and the peer it comes from
CastFrom(peer, d, m) == [dst |-> d, msg |-> m, peer |-> peer]

\* service.send_message: the cast comes from the node that is its sender
Cast(d, m) == CastFrom(m.sender, d, m)

\* engine actions
Send(d, m) == [type |-> "Send", node |-> d, msg |-> m, id |-> NoId]
Notify(ev, p) == [type |-> ev, node |-> p, msg |-> NoMsg, id |-> NoId]
Disconnect(p) == [type |-> "Disconnect", node |-> p, msg |-> NoMsg, id |-> NoId]
Deliver(id) == [type |-> "Deliver", node |-> 0, msg |-> NoMsg, id |-> id]

RECURSIVE SetToSeq(_)
SetToSeq(S) ==
    IF S = {} THEN <<>>
    ELSE LET x == CHOOSE x \in S : \A y \in S : x <= y
         IN <<x>> \o SetToSeq(S \ {x})

RECURSIVE SeqMap(_, _, _)
\* the Send actions of message m to every node of the sequence ds
SeqMap(ds, m, i) ==
    IF i > Len(ds) THEN <<>> ELSE <<Send(ds[i], m)>> \o SeqMap(ds, m, i + 1)

SendAll(S, m) == SeqMap(SetToSeq(S), m, 1)

\* ---------------------------------------------------------------- membership engine
HvJoin(self, hv, contact) ==
    [hv EXCEPT !.q = Append(@, Send(contact, HvMsg("Join", self)))]

HvAddToActiveView(self, hv, s) ==
    IF s \in hv.active \/ s = self THEN hv
    ELSE [active |-> hv.active \cup {s},
          q |-> hv.q \o <<Send(s, HvMsg("Neighbor", self)), Notify("NeighborUp", s)>>]

HvHandleProtocolMessage(self, hv, m) ==
    IF m.kind \in {"Join", "Neighbor"} THEN HvAddToActiveView(self, hv, m.sender)
    ELSE \* Disconnect
        IF m.sender \in hv.active
        THEN [active |-> hv.active \ {m.sender},
              q |-> hv.q \o <<Disconnect(m.sender), Notify("NeighborDown", m.sender)>>]
        ELSE hv

\* ---------------------------------------------------------------- broadcast engine
PtPush(self, pt, id, except) ==
    SendAll(pt.eager \ {except}, PtMsg("Gossip", self, id))
        \o SendAll(pt.lazy \ {except}, PtMsg("Ihave", self, id))

\* the peer sets hold only peers announced by handle_neighbor_up: a protocol
\* message moves its sender between the eager and the lazy set only if the
\* sender is in one of them
PtKnown(pt, p) == p \in pt.eager \cup pt.lazy

PtPromote(pt, p) ==
    IF PtKnown(pt, p) THEN [pt EXCEPT !.eager = @ \cup {p}, !.lazy = @ \ {p}] ELSE pt

PtDemote(pt, p) ==
    IF PtKnown(pt, p) THEN [pt EXCEPT !.eager = @ \ {p}, !.lazy = @ \cup {p}] ELSE pt

PtBroadcastMessage(self, pt, id) ==
    [pt EXCEPT !.q = @ \o <<Deliver(id)>> \o PtPush(self, pt, id, self),
               !.received = @ \cup {id}]

PtHandleGossip(self, pt, m) ==
    IF m.id \in pt.received
    THEN [PtDemote(pt, m.sender) EXCEPT
                    !.q = Append(@, Send(m.sender, PtMsg("Prune", self, NoId)))]
    ELSE [PtPromote(pt, m.sender) EXCEPT
                    !.q = @ \o <<Deliver(m.id)>> \o PtPush(self, pt, m.id, m.sender),
                    !.received = @ \cup {m.id},
                    !.missing = @ \ {m.id}]

PtHandleIhave(self, pt, m) ==
    IF m.id \in pt.received THEN pt
    ELSE [pt EXCEPT !.missing = @ \cup {m.id}]

PtHandleGraft(self, pt, m) ==
    [PtPromote(pt, m.sender) EXCEPT
               !.q = IF m.id \in pt.received
                     THEN Append(@, Send(m.sender, PtMsg("Gossip", self, m.id)))
                     ELSE @]

PtHandlePrune(self, pt, m) ==
    PtDemote(pt, m.sender)

PtHandleProtocolMessage(self, pt, m) ==
    CASE m.kind = "Gossip" -> PtHandleGossip(self, pt, m)
      [] m.kind = "Ihave" -> PtHandleIhave(self, pt, m)
      [] m.kind = "Graft" -> PtHandleGraft(self, pt, m)
      [] OTHER -> PtHandlePrune(self, pt, m)

PtHandleNeighborUp(self, pt, p) ==
    IF p = self THEN pt ELSE [pt EXCEPT !.eager = @ \cup {p}]

PtHandleNeighborDown(self, pt, p) ==
    [pt EXCEPT !.eager = @ \ {p}, !.lazy = @ \ {p}]

\* ---------------------------------------------------------------- initial state
\* Node::new for every node: registered, empty engines, message_seqno 0
InitOver(S) ==
    /\ registry = S
    /\ net = EmptyBag
    /\ message_rx = [n \in S |-> <<>>]
    /\ hyparview_node = [n \in S |-> [active |-> {}, q |-> <<>>]]
    /\ plumtree_node = [n \in S |->
            [eager |-> {}, lazy |-> {}, received |-> {}, missing |-> {}, q |-> <<>>]]
    /\ message_seqno = [n \in S |-> 0]
    /\ deliverable_messages = [n \in S |-> <<>>]
    /\ pc = [n \in S |-> "idle"]
    /\ did_something = [n \in S |-> FALSE]
    /\ result = [n \in S |-> "None"]
    /\ returned = [n \in S |-> <<>>]
    /\ submitted = [n \in S |-> <<>>]
    /\ downs = [n \in S |-> {}]
    /\ evicted = [n \in S |-> {}]
    /\ leaveView = [n \in S |-> {}]
    /\ quiet = [n \in S |-> FALSE]
    /\ downPendingAtPoll = [n \in S |-> FALSE]
    /\ returnedWithDown = [n \in S |-> FALSE]
    /\ gossipToEvicted = {}
    /\ cluster = {}
    /\ njoins = 0
    /\ ndups = 0
    /\ ninjected = 0
    /\ closed = [n \in S |-> FALSE]
    /\ drawn = [n \in S |-> <<>>]

Init == InitOver(Nodes)

\* ---------------------------------------------------------------- helpers on the state
Dropped == {n \in Nodes : pc[n] \in {"leave", "dropped"}}

RECURSIVE Sum(_, _)
Sum(f, S) == IF S = {} THEN 0 ELSE LET x == CHOOSE x \in S : TRUE IN f[x] + Sum(f, S \ {x})

\* p and q have each other in their active views
Linked(p, q) ==
    /\ p # q
    /\ p \notin Dropped /\ q \notin Dropped
    /\ q \in hyparview_node[p].active
    /\ p \in hyparview_node[q].active

RECURSIVE ReachFrom(_, _)
ReachFrom(S, k) ==
    IF k = 0 THEN S
    ELSE ReachFrom(S \cup {q \in Nodes : \E p \in S : Linked(p, q)}, k - 1)

\* the cluster of a: the nodes mutually reachable through active views
ClusterOf(a) == ReachFrom({a}, Cardinality(Nodes))

RECURSIVE SeqToBag(_)
SeqToBag(q) == IF q = <<>> THEN EmptyBag ELSE SetToBag({Head(q)}) (+) SeqToBag(Tail(q))

\* a NeighborDown is waiting in the membership engine's action queue
DownPending(q) == \E i \in 1..Len(q) : q[i].type = "NeighborDown"

\* ---------------------------------------------------------------- Node::join, Node::broadcast
JoinCall(n, c) ==
    /\ pc[n] = "idle"
    /\ njoins' = njoins + 1
    /\ hyparview_node' = [hyparview_node EXCEPT ![n] = HvJoin(n, @, c)]
    /\ UNCHANGED <<registry, net, message_rx, plumtree_node, message_seqno,
                   deliverable_messages, pc, did_something, result, returned,
                   submitted, downs, evicted, leaveView, quiet, downPendingAtPoll,
                   returnedWithDown, gossipToEvicted, cluster, ndups,
                   ninjected, closed, drawn>>

Join(n, c) == njoins < MaxJoins /\ JoinCall(n, c)

\* the sequence number after a broadcast
\* self.message_seqno += 1 without the overflow check (a build with
\* overflow-checks off): the u64 wraps
NextSeqno(s) == (s + 1) % (2 ^ SeqnoBits)

BroadcastCall(n) ==
    /\ pc[n] = "idle"
    /\ LET mid == MessageId(n, message_seqno[n])
       IN /\ message_seqno' = [message_seqno EXCEPT ![n] = NextSeqno(@)]
          /\ plumtree_node' = [plumtree_node EXCEPT ![n] = PtBroadcastMessage(n, @, mid)]
          /\ submitted' = [submitted EXCEPT ![n] = Append(@, mid)]
          /\ cluster' = cluster \cup {<<mid, b>> : b \in ClusterOf(n)}
    /\ UNCHANGED <<registry, net, message_rx, hyparview_node, deliverable_messages,
                   pc, did_something, result, returned, downs, evicted, leaveView,
                   quiet, downPendingAtPoll, returnedWithDown, gossipToEvicted, njoins,
                   ndups,
                   ninjected, closed, drawn>>

Broadcast(n) == Sum(message_seqno, Nodes) < MaxBroadcasts /\ BroadcastCall(n)

\* self.message_seqno += 1 with the overflow check (a build with
\* overflow-checks on): at u64::MAX the addition panics, after mid was made
\* and before broadcast_message is called
BroadcastOverflow(n) ==
    /\ pc[n] = "idle"
    /\ message_seqno[n] = 2 ^ SeqnoBits - 1
    /\ pc' = [pc EXCEPT ![n] = "panicked"]
    /\ UNCHANGED <<registry, net, message_rx, hyparview_node, plumtree_node,
                   message_seqno, deliverable_messages, did_something, result,
                   returned, submitted, downs, evicted, leaveView, quiet,
                   downPendingAtPoll, returnedWithDown, gossipToEvicted, cluster,
                   njoins, ndups, ninjected, closed, drawn>>

\* a broadcast call of a run in which a node broadcasts until its counter
\* has gone once round
WrapBroadcast(n) ==
    /\ Len(submitted[n]) <= 2 ^ SeqnoBits
    /\ BroadcastCall(n)

\* ---------------------------------------------------------------- the handlers
\* The part of a node that one pass of poll's loop works on:
\*   hv, pt        the two engines
\*   deliverable   deliverable_messages
\*   out           the casts handed to service.send_message, in order
\*   did           did_something
\*   downs, downAtPoll, toEvicted, drawn   the histories of the same names
NodeState(n) ==
    [hv |-> hyparview_node[n], pt |-> plumtree_node[n],
     deliverable |-> deliverable_messages[n], out |-> <<>>,
     did |-> FALSE, downs |-> downs[n], downAtPoll |-> downPendingAtPoll[n],
     toEvicted |-> {}, drawn |-> drawn[n]]

\* Node::handle_hyparview_action
HandleHyparviewAction(n, st, action) ==
    CASE action.type = "Send" ->
            [st EXCEPT !.out = Append(@, Cast(action.node, action.msg))]
      [] action.type = "NeighborDown" ->
            [st EXCEPT !.pt = PtHandleNeighborDown(n, @, action.node),
                       !.downs = @ \cup {action.node}]
      [] action.type = "NeighborUp" ->
            [st EXCEPT !.pt = PtHandleNeighborUp(n, @, action.node)]
      [] OTHER -> st

\* a handle_plumtree_action that queues every Deliver twice (C1 must reject it)
HandlePlumtreeActionTwice(n, st, action) ==
    IF action.type = "Send"
    THEN [st EXCEPT !.out = Append(@, Cast(action.node, action.msg))]
    ELSE [st EXCEPT !.deliverable = @ \o <<action.id, action.id>>]

\* a handle_plumtree_action that queues a Deliver with push_front (C20 must
\* reject it)
HandlePlumtreeActionFront(n, st, action) ==
    IF action.type = "Send"
    THEN [st EXCEPT !.out = Append(@, Cast(action.node, action.msg))]
    ELSE [st EXCEPT !.deliverable = <<action.id>> \o @]

\* Node::handle_plumtree_action
HandlePlumtreeAction(n, st, action) ==
    IF action.type = "Send"
    THEN [st EXCEPT !.out = Append(@, Cast(action.node, action.msg)),
                    !.toEvicted = IF action.msg.kind = "Gossip" /\ action.node \in evicted[n]
                                  THEN @ \cup {<<n, action.node>>} ELSE @]
    ELSE [st EXCEPT !.deliverable = Append(@, action.id)]

\* while let Some(action) = self.hyparview_node.poll_action() { ... }
RECURSIVE DrainHyparview(_, _)
DrainHyparview(n, st) ==
    IF st.hv.q = <<>> THEN st
    ELSE DrainHyparview(n,
            HandleHyparviewAction(n, [st EXCEPT !.hv.q = Tail(@), !.did = TRUE],
                                  Head(st.hv.q)))

\* while let Some(action) = self.plumtree_node.poll_action() { ... }
RECURSIVE DrainPlumtree(_, _)
DrainPlumtree(n, st) ==
    LET called == [st EXCEPT !.downAtPoll = @ \/ DownPending(st.hv.q)]
        action == Head(st.pt.q)
    IN IF st.pt.q = <<>> THEN called
       ELSE DrainPlumtree(n,
                HandlePlumtreeAction(n,
                    [called EXCEPT !.pt.q = Tail(@), !.did = TRUE,
                                   !.drawn = IF action.type = "Deliver"
                                             THEN Append(@, action.id) ELSE @],
                    action))

\* a pass that drains the broadcast engine before the membership engine
\* (C3 must reject it)
DrainEnginesPlumtreeFirst(n, st) == DrainHyparview(n, DrainPlumtree(n, st))

\* the two engine loops of one pass, in the order of the code
DrainEngines(n, st) == DrainPlumtree(n, DrainHyparview(n, st))

\* Node::handle_rpc_message
HandleRpcMessage(n, message) ==
    IF message.proto = "hyparview"
    THEN /\ hyparview_node' = [hyparview_node EXCEPT ![n] =
                HvHandleProtocolMessage(n, @, message)]
         /\ UNCHANGED plumtree_node
    ELSE /\ plumtree_node' = [plumtree_node EXCEPT ![n] =
                PtHandleProtocolMessage(n, @, message)]
         /\ UNCHANGED hyparview_node

\* ---------------------------------------------------------------- Node::poll
\* a return that leaves the returned message in deliverable_messages (C15
\* must reject it)
ReturnReadyKeeps(n) ==
    /\ returned' = [returned EXCEPT ![n] = Append(@, Head(deliverable_messages[n]))]
    /\ pc' = [pc EXCEPT ![n] = "idle"]
    /\ result' = [result EXCEPT ![n] = "Ready"]
    /\ did_something' = [did_something EXCEPT ![n] = FALSE]
    /\ quiet' = [quiet EXCEPT ![n] = FALSE]
    /\ returnedWithDown' = [returnedWithDown EXCEPT ![n] =
            @ \/ DownPending(hyparview_node[n].q)]
    /\ UNCHANGED <<deliverable_messages, hyparview_node, plumtree_node, net, downs,
                   downPendingAtPoll, gossipToEvicted, drawn>>

\* return Ok(Async::Ready(Some(message)))
ReturnReady(n) ==
    /\ deliverable_messages' = [deliverable_messages EXCEPT ![n] = Tail(@)]
    /\ returned' = [returned EXCEPT ![n] = Append(@, Head(deliverable_messages[n]))]
    /\ pc' = [pc EXCEPT ![n] = "idle"]
    /\ result' = [result EXCEPT ![n] = "Ready"]
    /\ did_something' = [did_something EXCEPT ![n] = FALSE]
    /\ quiet' = [quiet EXCEPT ![n] = FALSE]
    /\ returnedWithDown' = [returnedWithDown EXCEPT ![n] =
            @ \/ DownPending(hyparview_node[n].q)]
    /\ UNCHANGED <<hyparview_node, plumtree_node, net, downs, downPendingAtPoll,
                   gossipToEvicted, drawn>>

\* Ok(Async::NotReady)
ReturnNotReady(n) ==
    /\ pc' = [pc EXCEPT ![n] = "idle"]
    /\ result' = [result EXCEPT ![n] = "Pending"]
    /\ did_something' = [did_something EXCEPT ![n] = FALSE]
    /\ quiet' = [quiet EXCEPT ![n] = FALSE]
    /\ returnedWithDown' = [returnedWithDown EXCEPT ![n] =
            @ \/ DownPending(hyparview_node[n].q)]
    /\ UNCHANGED <<deliverable_messages, returned, hyparview_node, plumtree_node, net,
                   downs, downPendingAtPoll, gossipToEvicted, drawn>>

\* the two engine loops, up to the read of the inbox
EnginePass(n, q) ==
    LET st == DrainEngines(n, NodeState(n))
    IN /\ hyparview_node' = [hyparview_node EXCEPT ![n] = st.hv]
       /\ plumtree_node' = [plumtree_node EXCEPT ![n] = st.pt]
       /\ deliverable_messages' = [deliverable_messages EXCEPT ![n] = st.deliverable]
       /\ net' = net (+) SeqToBag(st.out)
       /\ downs' = [downs EXCEPT ![n] = st.downs]
       /\ downPendingAtPoll' = [downPendingAtPoll EXCEPT ![n] = st.downAtPoll]
       /\ gossipToEvicted' = gossipToEvicted \cup st.toEvicted
       /\ drawn' = [drawn EXCEPT ![n] = st.drawn]
       /\ did_something' = [did_something EXCEPT ![n] = st.did]
       /\ pc' = [pc EXCEPT ![n] = "rx"]
       /\ result' = [result EXCEPT ![n] = "Running"]
       /\ quiet' = [quiet EXCEPT ![n] = q]
       /\ UNCHANGED <<returned, returnedWithDown>>

\* a loop that does not test did_something, and so never returns NotReady
\* (C7 must reject it)
LoopHeadSpin(n, ds, q) ==
    IF deliverable_messages[n] # <<>> THEN ReturnReady(n)
    ELSE EnginePass(n, q)

\* one turn of `while did_something`, from its test to the read of the inbox;
\* ds is the value of did_something on arrival
LoopHead(n, ds, q) ==
    IF ~ds THEN ReturnNotReady(n)
    ELSE IF deliverable_messages[n] # <<>> THEN ReturnReady(n)
    ELSE EnginePass(n, q)

\* poll is called with nothing to do
QuietNow(n) ==
    /\ message_rx[n] = <<>>
    /\ hyparview_node[n].q = <<>>
    /\ plumtree_node[n].q = <<>>
    /\ deliverable_messages[n] = <<>>

\* the call of poll, up to its first read of the inbox
PollCall(n) ==
    /\ pc[n] = "idle"
    /\ LoopHead(n, TRUE, QuietNow(n))
    /\ UNCHANGED <<registry, message_rx, message_seqno, submitted, evicted, leaveView,
                   cluster, njoins, ndups, ninjected, closed>>

\* the peers the membership engine has evicted, after it handled a message
EvictedAfter(n, hv) ==
    (evicted[n] \cup (hyparview_node[n].active \ hv.active)) \ hv.active

\* an inbox loop that handles the message and leaves did_something as it was
\* (C8 must reject it)
PollInboxMessageForgets(n) ==
    /\ pc[n] = "rx"
    /\ message_rx[n] # <<>>
    /\ message_rx' = [message_rx EXCEPT ![n] = Tail(@)]
    /\ HandleRpcMessage(n, Head(message_rx[n]))
    /\ evicted' = [evicted EXCEPT ![n] = EvictedAfter(n, hyparview_node'[n])]
    /\ UNCHANGED <<registry, net, message_seqno, deliverable_messages, pc, result,
                   returned, submitted, downs, leaveView, quiet, downPendingAtPoll,
                   returnedWithDown, gossipToEvicted, cluster, njoins, ndups,
                   did_something, ninjected, closed, drawn>>

\* message_rx.poll() gave a message: handle_rpc_message, and the loop reads again
PollInboxMessage(n) ==
    /\ pc[n] = "rx"
    /\ message_rx[n] # <<>>
    /\ message_rx' = [message_rx EXCEPT ![n] = Tail(@)]
    /\ HandleRpcMessage(n, Head(message_rx[n]))
    /\ evicted' = [evicted EXCEPT ![n] = EvictedAfter(n, hyparview_node'[n])]
    /\ did_something' = [did_something EXCEPT ![n] = TRUE]
    /\ UNCHANGED <<registry, net, message_seqno, deliverable_messages, pc, result,
                   returned, submitted, downs, leaveView, quiet, downPendingAtPoll,
                   returnedWithDown, gossipToEvicted, cluster, njoins, ndups,
                   ninjected, closed, drawn>>

\* an inbox loop that may stop reading while messages remain (C16 must
\* reject it)
PollInboxEmptyEarly(n) ==
    /\ pc[n] = "rx"
    /\ ~closed[n]
    /\ LoopHead(n, did_something[n], FALSE)
    /\ UNCHANGED <<registry, message_rx, message_seqno, submitted, evicted, leaveView,
                   cluster, njoins, ndups, ninjected, closed>>

\* message_rx.poll() gave NotReady: the inbox loop ends and the outer loop turns
PollInboxEmpty(n) ==
    /\ pc[n] = "rx"
    /\ message_rx[n] = <<>>
    /\ ~closed[n]
    /\ LoopHead(n, did_something[n], FALSE)
    /\ UNCHANGED <<registry, message_rx, message_seqno, submitted, evicted, leaveView,
                   cluster, njoins, ndups, ninjected, closed>>

\* a variant of PollInboxClosed that takes the closed inbox for an empty one
\* and returns NotReady (C13 must reject it)
PollInboxClosedPending(n) ==
    /\ pc[n] = "rx"
    /\ message_rx[n] = <<>>
    /\ closed[n]
    /\ ReturnNotReady(n)
    /\ UNCHANGED <<registry, message_rx, message_seqno, submitted, evicted, leaveView,
                   cluster, njoins, ndups, ninjected, closed>>

\* message_rx.poll() gave Ready(None), the channel is closed and empty:
\* track_assert_some!(message, ErrorKind::Other, "Service down") returns Err
PollInboxClosed(n) ==
    /\ pc[n] = "rx"
    /\ message_rx[n] = <<>>
    /\ closed[n]
    /\ pc' = [pc EXCEPT ![n] = "idle"]
    /\ result' = [result EXCEPT ![n] = "Err"]
    /\ did_something' = [did_something EXCEPT ![n] = FALSE]
    /\ quiet' = [quiet EXCEPT ![n] = FALSE]
    /\ UNCHANGED <<registry, net, message_rx, hyparview_node, plumtree_node,
                   message_seqno, deliverable_messages, returned, submitted, downs,
                   evicted, leaveView, downPendingAtPoll, returnedWithDown,
                   gossipToEvicted, cluster, njoins, ndups, ninjected, closed, drawn>>

\* ---------------------------------------------------------------- Drop for Node
\* self.service.deregister_local_node(self.local_id)
Deregister(n) ==
    /\ pc[n] = "idle"
    /\ Cardinality(Dropped) < MaxDrops
    /\ registry' = registry \ {n}
    /\ pc' = [pc EXCEPT ![n] = "leave"]
    /\ UNCHANGED <<net, message_rx, hyparview_node, plumtree_node, message_seqno,
                   deliverable_messages, did_something, result, returned, submitted,
                   downs, evicted, leaveView, quiet, downPendingAtPoll, returnedWithDown,
                   gossipToEvicted, cluster, njoins, ndups,
                   ninjected, closed, drawn>>

\* a leave that walks the broadcast engine's eager peers (C9 must reject it)
EagerPeers(n) == plumtree_node[n].eager

\* the peers Node::leave sends a Disconnect to
LeavePeers(n) == hyparview_node[n].active

\* Node::leave: a Disconnect to every peer of the active view
Leave(n) ==
    /\ pc[n] = "leave"
    /\ net' = net (+) SetToBag({Cast(p, HvMsg("Disconnect", n)) : p \in LeavePeers(n)})
    /\ leaveView' = [leaveView EXCEPT ![n] = hyparview_node[n].active]
    /\ pc' = [pc EXCEPT ![n] = "dropped"]
    /\ UNCHANGED <<registry, message_rx, hyparview_node, plumtree_node, message_seqno,
                   deliverable_messages, did_something, result, returned, submitted,
                   downs, evicted, quiet, downPendingAtPoll, returnedWithDown,
                   gossipToEvicted, cluster, njoins, ndups,
                   ninjected, closed, drawn>>

\* ---------------------------------------------------------------- the service's cast handlers
\* a variant of PruneHandler that wraps as ProtocolMessage::Gossip (C11 must
\* reject it)
PruneHandlerAsGossip(m) == PtMsg("Gossip", m.sender, m.id)

\* RpcMessage::Plumtree(ProtocolMessage::Gossip(m)), and the three like it
GossipHandler(m) == PtMsg("Gossip", m.sender, m.id)
IhaveHandler(m) == PtMsg("Ihave", m.sender, m.id)
GraftHandler(m) == PtMsg("Graft", m.sender, m.id)
PruneHandler(m) == PtMsg("Prune", m.sender, m.id)

\* the RpcMessage the handler of the cast's procedure puts on the inbox; the
\* handler sees (local-id, message) only, not the peer
RpcOfCast(c) ==
    IF c.msg.proto = "plumtree"
    THEN CASE c.msg.kind = "Gossip" -> GossipHandler(c.msg)
           [] c.msg.kind = "Ihave" -> IhaveHandler(c.msg)
           [] c.msg.kind = "Graft" -> GraftHandler(c.msg)
           [] OTHER -> PruneHandler(c.msg)
    ELSE c.msg

\* get_local_node_or_disconnect, then NodeHandle::send_rpc_message
HandleCast(c) ==
    /\ BagIn(c, net)
    /\ ~closed[c.dst]
    /\ IF c.dst \in registry
       THEN /\ message_rx' = [message_rx EXCEPT ![c.dst] = Append(@, RpcOfCast(c))]
            /\ net' = net (-) SetToBag({c})
            /\ quiet' = [quiet EXCEPT ![c.dst] = FALSE]
       ELSE /\ net' = (net (-) SetToBag({c}))
                        (+) SetToBag({Cast(c.msg.sender, HvMsg("Disconnect", c.dst))})
            /\ UNCHANGED <<message_rx, quiet>>
    /\ UNCHANGED <<registry, hyparview_node, plumtree_node, message_seqno,
                   deliverable_messages, pc, did_something, result, returned, submitted,
                   downs, evicted, leaveView, downPendingAtPoll, returnedWithDown,
                   gossipToEvicted, cluster, njoins, ndups,
                   ninjected, closed, drawn>>

\* the transport hands the same Plumtree cast to the handler a second time
Redeliver(c) ==
    /\ BagIn(c, net)
    /\ c.msg.proto = "plumtree"
    /\ c.dst \in registry
    /\ ndups < MaxDups
    /\ ndups' = ndups + 1
    /\ message_rx' = [message_rx EXCEPT ![c.dst] = Append(@, c.msg)]
    /\ quiet' = [quiet EXCEPT ![c.dst] = FALSE]
    /\ UNCHANGED <<registry, net, hyparview_node, plumtree_node, message_seqno,
                   deliverable_messages, pc, did_something, result, returned, submitted,
                   downs, evicted, leaveView, downPendingAtPoll, returnedWithDown,
                   gossipToEvicted, cluster, njoins,
                   ninjected, closed, drawn>>

\* the service of node n goes away: the senders of its inbox channel are
\* dropped with it
ServiceDown(n) ==
    /\ ~closed[n]
    /\ pc[n] \in {"idle", "rx"}
    /\ closed' = [closed EXCEPT ![n] = TRUE]
    /\ UNCHANGED <<registry, net, message_rx, hyparview_node, plumtree_node,
                   message_seqno, deliverable_messages, pc, did_something, result,
                   returned, submitted, downs, evicted, leaveView, quiet,
                   downPendingAtPoll, returnedWithDown, gossipToEvicted, cluster,
                   njoins, ndups, ninjected, drawn>>

\* a cast for a node whose service is gone finds no handler
LoseCast(c) ==
    /\ BagIn(c, net)
    /\ closed[c.dst]
    /\ net' = net (-) SetToBag({c})
    /\ UNCHANGED <<registry, message_rx, hyparview_node, plumtree_node, message_seqno,
                   deliverable_messages, pc, did_something, result, returned, submitted,
                   downs, evicted, leaveView, quiet, downPendingAtPoll, returnedWithDown,
                   gossipToEvicted, cluster, njoins, ndups, ninjected, closed, drawn>>

\* a peer crafts a Plumtree cast of family k for local-id d with declared
\* sender s (the peer may or may not be s)
PlumtreeKinds == {"Gossip", "Ihave", "Graft", "Prune"}

InjectCast(peer, d, k, s) ==
    /\ ninjected < MaxInjects
    /\ ninjected' = ninjected + 1
    /\ net' = net (+) SetToBag({CastFrom(peer, d,
                PtMsg(k, s, IF k = "Prune" THEN NoId ELSE MessageId(s, 0)))})
    /\ UNCHANGED <<registry, message_rx, hyparview_node, plumtree_node, message_seqno,
                   deliverable_messages, pc, did_something, result, returned, submitted,
                   downs, evicted, leaveView, quiet, downPendingAtPoll, returnedWithDown,
                   gossipToEvicted, cluster, njoins, ndups, closed, drawn>>

\* ---------------------------------------------------------------- specification
Next ==
    \/ \E n \in Nodes, c \in Nodes : c # n /\ Join(n, c)
    \/ \E n \in Nodes : Broadcast(n)
    \/ \E n \in Nodes : PollCall(n)
    \/ \E n \in Nodes : PollInboxMessage(n)
    \/ \E n \in Nodes : PollInboxEmpty(n)
    \/ \E n \in Nodes : Deregister(n)
    \/ \E n \in Nodes : Leave(n)
    \/ \E c \in BagToSet(net) : HandleCast(c)

Spec == Init /\ [][Next]_vars

\* the same nodes, none dropped, over a transport that may deliver a cast twice
NextDup ==
    \/ \E n \in Nodes, c \in Nodes : c # n /\ Join(n, c)
    \/ \E n \in Nodes : Broadcast(n)
    \/ \E n \in Nodes : PollCall(n)
    \/ \E n \in Nodes : PollInboxMessage(n)
    \/ \E n \in Nodes : PollInboxEmpty(n)
    \/ \E c \in BagToSet(net) : HandleCast(c)
    \/ \E c \in BagToSet(net) : Redeliver(c)

SpecDup == Init /\ [][NextDup]_vars

\* the cast handlers under crafted casts: no joins and no broadcasts, nodes are
\* polled and dropped, and peers craft Plumtree casts of every family
NextCast ==
    \/ \E peer \in Nodes, d \in Nodes, k \in PlumtreeKinds, s \in Nodes :
            InjectCast(peer, d, k, s)
    \/ \E n \in Nodes : PollCall(n)
    \/ \E n \in Nodes : PollInboxMessage(n)
    \/ \E n \in Nodes : PollInboxEmpty(n)
    \/ \E n \in Nodes : Deregister(n)
    \/ \E n \in Nodes : Leave(n)
    \/ \E c \in BagToSet(net) : HandleCast(c)

SpecCast == Init /\ [][NextCast]_vars

\* nodes whose service may go away while they live: polls and casts from
\* peers, no joins, broadcasts or drops
NextDown ==
    \/ \E n \in Nodes : PollCall(n)
    \/ \E n \in Nodes : PollInboxMessage(n)
    \/ \E n \in Nodes : PollInboxEmpty(n)
    \/ \E n \in Nodes : PollInboxClosed(n)
    \/ \E n \in Nodes : ServiceDown(n)
    \/ \E peer \in Nodes, d \in Nodes, k \in PlumtreeKinds, s \in Nodes :
            InjectCast(peer, d, k, s)
    \/ \E c \in BagToSet(net) : HandleCast(c)
    \/ \E c \in BagToSet(net) : LoseCast(c)

SpecDown == Init /\ [][NextDown]_vars

\* ---------------------------------------------------------------- a five-node cluster
\* Five nodes are created, every node joins every earlier one, one message is
\* broadcast and the cluster settles; then a node that forwards pushes for
\* others crashes and a survivor broadcasts.
InitTree == InitOver(TreeNodes)

\* the join calls of the five nodes, in order
JoinOrder ==
    << <<2, 1>>, <<3, 1>>, <<3, 2>>, <<4, 1>>, <<4, 2>>, <<4, 3>>,
       <<5, 1>>, <<5, 2>>, <<5, 3>>, <<5, 4>> >>

Crashed == {n \in TreeNodes : pc[n] = "crashed"}

TreeLive == TreeNodes \ Crashed

\* the nodes with a poll in progress or with something for a poll to do
Busy == {n \in TreeLive : pc[n] = "rx" \/ ~QuietNow(n)}

\* every live node idle with nothing to do, nothing in flight
TreeAtRest == net = EmptyBag /\ Busy = {}

\* the messages broadcast so far
TreeSubmitted == UNION {{submitted[n][i] : i \in 1..Len(submitted[n])} : n \in TreeNodes}

\* While the cluster is built the nodes are polled one after the other and a
\* cast is handled only when no node has work; after the crash every
\* interleaving is taken.
Turn(n) == Crashed # {} \/ \A m \in Busy : n <= m

CastTurn(c) ==
    Crashed # {} \/ (Busy = {} /\ c = CHOOSE x \in BagToSet(net) : TRUE)

TreeJoin ==
    /\ TreeAtRest
    /\ Crashed = {}
    /\ njoins < Len(JoinOrder)
    /\ JoinCall(JoinOrder[njoins + 1][1], JoinOrder[njoins + 1][2])

\* the broadcast over which the cluster stabilises its tree
TreeFirstBroadcast(n) ==
    /\ TreeAtRest
    /\ Crashed = {}
    /\ njoins = Len(JoinOrder)
    /\ TreeSubmitted = {}
    /\ BroadcastCall(n)

\* poll is called on a node that has something to do
TreePollCall(n) ==
    /\ n \in Busy
    /\ Turn(n)
    /\ PollCall(n)

TreePollInboxMessage(n) == Turn(n) /\ PollInboxMessage(n)

TreePollInboxEmpty(n) == Turn(n) /\ PollInboxEmpty(n)

TreeHandleCast(c) == CastTurn(c) /\ HandleCast(c)

\* the process of an interior node of the stabilised tree dies: its node is
\* polled no more and its server answers no more
Crash(n) ==
    /\ TreeAtRest
    /\ Crashed = {}
    /\ TreeSubmitted # {}
    /\ Cardinality(plumtree_node[n].eager) >= 2
    /\ pc' = [pc EXCEPT ![n] = "crashed"]
    /\ closed' = [closed EXCEPT ![n] = TRUE]
    /\ UNCHANGED <<registry, net, message_rx, hyparview_node, plumtree_node,
                   message_seqno, deliverable_messages, did_something, result,
                   returned, submitted, downs, evicted, leaveView, quiet,
                   downPendingAtPoll, returnedWithDown, gossipToEvicted, cluster,
                   njoins, ndups, ninjected, drawn>>

\* a survivor broadcasts after the crash
TreeBroadcast(n) ==
    /\ Crashed # {}
    /\ n \in TreeLive
    /\ Cardinality(TreeSubmitted) = 1
    /\ BroadcastCall(n)

NextTree ==
    \/ TreeJoin
    \/ \E n \in TreeNodes : TreeFirstBroadcast(n)
    \/ \E n \in TreeNodes : TreePollCall(n)
    \/ \E n \in TreeNodes : TreePollInboxMessage(n)
    \/ \E n \in TreeNodes : TreePollInboxEmpty(n)
    \/ \E c \in BagToSet(net) : TreeHandleCast(c)
    \/ \E n \in TreeNodes : Crash(n)
    \/ \E n \in TreeNodes : TreeBroadcast(n)
    \/ \E c \in BagToSet(net) : LoseCast(c)

SpecTree == InitTree /\ [][NextTree]_vars

\* ---------------------------------------------------------------- the counter at its end
\* nodes that only broadcast and are polled, as often as it takes the
\* sequence counter to reach its last value
NextWrap ==
    \/ \E n \in Nodes : WrapBroadcast(n)
    \/ \E n \in Nodes : BroadcastOverflow(n)
    \/ \E n \in Nodes : PollCall(n)
    \/ \E n \in Nodes : PollInboxEmpty(n)

SpecWrap == Init /\ [][NextWrap]_vars

\* every node is polled again and again, a dropping node finishes its drop,
\* and the transport hands every cast to its handler
Fairness ==
    /\ \A n \in Nodes :
        /\ WF_vars(PollCall(n))
        /\ WF_vars(PollInboxMessage(n))
        /\ WF_vars(PollInboxEmpty(n))
        /\ WF_vars(Leave(n))
    /\ WF_vars(\E c \in BagToSet(net) : HandleCast(c))

FairSpec == Init /\ [][Next]_vars /\ Fairness

\* a poll that was called runs on: the thread that called it goes on to the
\* next read of the inbox
PollFairness ==
    \A n \in Nodes : WF_vars(PollInboxMessage(n)) /\ WF_vars(PollInboxEmpty(n))

\* one join, one broadcast, and the polls and casts that follow from them
FirstBroadcast(n) == Sum(message_seqno, Nodes) = 0 /\ BroadcastCall(n)

NextPoll ==
    \/ \E n \in Nodes, c \in Nodes : c # n /\ Join(n, c)
    \/ \E n \in Nodes : FirstBroadcast(n)
    \/ \E n \in Nodes : PollCall(n)
    \/ \E n \in Nodes : PollInboxMessage(n)
    \/ \E n \in Nodes : PollInboxEmpty(n)
    \/ \E c \in BagToSet(net) : HandleCast(c)

FairPollSpec == Init /\ [][NextPoll]_vars /\ PollFairness

Quiescent ==
    /\ net = EmptyBag
    /\ \A n \in Nodes :
        /\ pc[n] = "idle"
        /\ message_rx[n] = <<>>
        /\ hyparview_node[n].q = <<>>
        /\ plumtree_node[n].q = <<>>
        /\ deliverable_messages[n] = <<>>

\* C2: with no node dropped, once the system has come to rest every message
\* has been returned by the poll of every node that was in the cluster of its
\* origin when it was broadcast.
C2_EveryBroadcastDelivered ==
    (Quiescent /\ Dropped = {}) =>
        \A x \in cluster : \E i \in 1..Len(returned[x[2]]) : returned[x[2]][i] = x[1]

\* C3: the broadcast engine's poll_action is never called while a NeighborDown
\* of the membership engine waits to be passed to handle_neighbor_down.
C3_DownBeforePollAction == \A n \in Nodes : ~downPendingAtPoll[n]

\* a poll returned while a NeighborDown was waiting, and a later poll passed it
\* to handle_neighbor_down and then called the broadcast engine's poll_action
C3_Witness ==
    \E n \in Nodes :
        /\ returnedWithDown[n]
        /\ downs[n] # {}
        /\ ~DownPending(hyparview_node[n].q)
        /\ pc[n] = "rx"

\* C4: when poll has returned, every eager peer is in the active view and no
\* NeighborDown waits in the membership engine's action queue.
C4_PropagatedAtReturn ==
    \A n \in Nodes :
        (pc[n] = "idle" /\ result[n] \in {"Ready", "Pending"}) =>
            /\ ~DownPending(hyparview_node[n].q)
            /\ plumtree_node[n].eager \subseteq hyparview_node[n].active

\* C5: the runtime hands the transport no gossip addressed to a peer that the
\* membership engine has evicted.
C5_NoGossipToEvicted == gossipToEvicted = {}

\* C6: the ids handed to broadcast_message by node n are (n, 0), (n, 1), ...,
\* one per broadcast call, and message_seqno counts them.
C6_SeqnoStrictlyIncreasing ==
    \A n \in Nodes :
        /\ Len(submitted[n]) = message_seqno[n]
        /\ \A i \in 1..Len(submitted[n]) : submitted[n][i] = MessageId(n, i - 1)

\* node n's poll returns in this step
PollReturns(n) ==
    \/ pc[n] = "idle" /\ returned'[n] # returned[n]
    \/ pc[n] = "rx" /\ pc'[n] = "idle"

\* the inbox was empty and no engine had a pending action when the poll that
\* runs (or is being called) was called, and nothing has arrived since
EnginesIdle(n) ==
    IF pc[n] = "idle"
    THEN /\ message_rx[n] = <<>>
         /\ hyparview_node[n].q = <<>>
         /\ plumtree_node[n].q = <<>>
    ELSE quiet[n]

\* C7 as stated: a poll called with the inbox empty and no engine action
\* pending returns Pending.
C7_IdlePollPending ==
    [][\A n \in Nodes : (PollReturns(n) /\ EnginesIdle(n)) => result'[n] = "Pending"]_vars

\* C7 as amended: a poll called with the inbox and the deliverable queue empty
\* and no engine action pending does not return Ready, and returns Pending at
\* its read of the inbox unless a message has arrived meanwhile.
C7_QuietPollPending ==
    [][\A n \in Nodes :
        /\ (pc[n] = "idle" /\ QuietNow(n) /\ result'[n] # result[n])
                => (pc'[n] = "rx" /\ quiet'[n] /\ ~did_something'[n])
        /\ (/\ pc[n] = "rx" /\ quiet[n]
            /\ message_rx'[n] = message_rx[n]
            /\ (pc'[n] # pc[n] \/ ~quiet'[n]))
                => (pc'[n] = "idle" /\ result'[n] = "Pending")]_vars

\* a poll called with nothing to do, by a node that has worked before, is at
\* its read of the inbox
C7_Witness ==
    \E n \in Nodes : pc[n] = "rx" /\ quiet[n] /\ returned[n] # <<>> /\ downs[n] # {}

\* C8: when poll returns Pending the deliverable queue is empty, the inbox was
\* empty at the read that ended the loop, and neither engine has a pending action.
C8_PendingMeansNoProgress ==
    [][\A n \in Nodes :
        (pc[n] = "rx" /\ pc'[n] = "idle" /\ result'[n] = "Pending") =>
            /\ message_rx[n] = <<>>
            /\ deliverable_messages'[n] = <<>>
            /\ hyparview_node'[n].q = <<>>
            /\ plumtree_node'[n].q = <<>>]_vars

\* a poll that had work to do has returned Pending
C8_Witness ==
    \E n \in Nodes :
        /\ pc[n] = "idle" /\ result[n] = "Pending"
        /\ returned[n] # <<>> /\ downs[n] # {}

\* the number of Disconnects of sender n for peer p in the bag b
DisconnectsTo(b, n, p) == CopiesIn(Cast(p, HvMsg("Disconnect", n)), b)

\* C9: a dropped node is not in the registry, and its drop hands the transport
\* exactly one Disconnect of sender n for each peer of its active view, and
\* none for any other node.
C9_DropLeaves ==
    [][\A n \in Nodes :
        /\ pc'[n] = "dropped" => n \notin registry'
        /\ (pc[n] # "dropped" /\ pc'[n] = "dropped") =>
                \A p \in Nodes :
                    DisconnectsTo(net', n, p) = DisconnectsTo(net, n, p)
                        + (IF p \in hyparview_node[n].active THEN 1 ELSE 0)]_vars

C9_Witness == \E n \in Nodes : pc[n] = "dropped" /\ leaveView[n] # {}

\* C10: every peer p of the active view a node n had when it was dropped
\* eventually has had NeighborDown(n) passed to its broadcast engine and has
\* n out of its active view.
C10_LeaveObserved ==
    \A n \in Nodes, p \in Nodes :
        (pc[n] = "dropped" /\ p \in leaveView[n])
            ~> (p \in Dropped \/ (n \in downs[p] /\ n \notin hyparview_node[p].active))

\* C10 at rest: once nothing is in flight and no live node has anything left
\* to handle, every live peer of the active view a dropped node had has had
\* that NeighborDown passed to its broadcast engine and has the node out of
\* its active view.
LiveAtRest ==
    /\ net = EmptyBag
    /\ \A n \in Nodes \ Dropped :
        /\ pc[n] = "idle"
        /\ message_rx[n] = <<>>
        /\ hyparview_node[n].q = <<>>
        /\ plumtree_node[n].q = <<>>

C10_LeaveObservedAtRest ==
    LiveAtRest =>
        \A n \in Nodes, p \in Nodes \ Dropped :
            (pc[n] = "dropped" /\ p \in leaveView[n])
                => (n \in downs[p] /\ n \notin hyparview_node[p].active)

C10_Witness ==
    \E n \in Nodes, p \in Nodes :
        /\ pc[n] = "dropped" /\ p \in leaveView[n]
        /\ n \in downs[p] /\ n \notin hyparview_node[p].active

\* C11: the handler of a Plumtree cast whose local-id is not registered puts
\* nothing on any inbox and issues one Disconnect to the declared sender; the
\* handler of a cast whose local-id is registered appends the Plumtree message
\* of the cast's family to that node's inbox, and to no other.
C11_CastRouted ==
    [][\A c \in BagToSet(net) :
        (c.msg.proto = "plumtree" /\ HandleCast(c)) =>
            IF c.dst \in registry
            THEN /\ message_rx' = [message_rx EXCEPT ![c.dst] =
                        Append(@, PtMsg(c.msg.kind, c.msg.sender, c.msg.id))]
                 /\ net' = net (-) SetToBag({c})
            ELSE /\ message_rx' = message_rx
                 /\ DisconnectsTo(net', c.dst, c.msg.sender)
                        = DisconnectsTo(net, c.dst, c.msg.sender) + 1]_vars

\* a Prune cast has reached the inbox of a registered node, and a cast for a
\* dropped node (which had no peers) was answered with a Disconnect
C11_Witness ==
    \E n \in Nodes, p \in Nodes, o \in Nodes :
        /\ n \in registry
        /\ PtMsg("Prune", o, NoId) \in {message_rx[n][i] : i \in 1..Len(message_rx[n])}
        /\ pc[p] = "dropped" /\ leaveView[p] = {}
        /\ \E q \in Nodes : DisconnectsTo(net, p, q) = 1

\* C12: the handler of a gossip cast whose declared sender is not the peer it
\* comes from puts nothing on any inbox.
C12_ForgedGossipDropped ==
    [][\A c \in BagToSet(net) :
        (/\ c.msg.proto = "plumtree" /\ c.msg.kind = "Gossip"
         /\ c.peer # c.msg.sender
         /\ HandleCast(c)) => message_rx' = message_rx]_vars

\* C13 as stated: a poll that finds its inbox channel closed and empty returns
\* Ready(None).
C13_ClosedPollEndsStream ==
    [][\A n \in Nodes :
        (pc[n] = "rx" /\ closed[n] /\ message_rx[n] = <<>> /\ pc'[n] = "idle")
            => result'[n] = "ReadyNone"]_vars

\* C13 as amended: a poll that finds its inbox channel closed and empty returns
\* the error, and no poll returns Ready(None).
C13_ClosedPollFails ==
    [][\A n \in Nodes :
        /\ (pc[n] = "rx" /\ closed[n] /\ message_rx[n] = <<>> /\ pc'[n] = "idle")
                => result'[n] = "Err"
        /\ result'[n] # "ReadyNone"]_vars

\* a node whose service went away while messages were in its inbox has handled
\* them, returned what they delivered, and then got the error
C13_Witness ==
    \E n \in Nodes :
        /\ closed[n] /\ pc[n] = "idle" /\ result[n] = "Err"
        /\ returned[n] # <<>>
        /\ submitted[n] = <<>>

\* C14: in the five-node cluster whose tree has stabilised, after an
\* interior node has crashed, once the survivors have come to rest every
\* message broadcast by a survivor has been returned by the poll of every
\* survivor.
C14_TreeRepaired ==
    (TreeAtRest /\ Crashed # {}) =>
        \A b \in TreeLive, n \in TreeLive :
            \A i \in 1..Len(submitted[b]) :
                \E k \in 1..Len(returned[n]) : returned[n][k] = submitted[b][i]

\* before the crash the stabilising broadcast has been returned by all five
\* nodes and the eager links form a spanning tree
C14_Stabilised ==
    (TreeAtRest /\ Crashed = {} /\ TreeSubmitted # {}) =>
        /\ \A n \in TreeNodes : \A id \in TreeSubmitted :
                \E k \in 1..Len(returned[n]) : returned[n][k] = id
        /\ \A n \in TreeNodes : hyparview_node[n].active = TreeNodes \ {n}
        /\ Sum([n \in TreeNodes |-> Cardinality(plumtree_node[n].eager)], TreeNodes) = 8

\* C15: a poll called while deliverable_messages is non-empty returns Ready
\* with the head of the queue, removes exactly that message, leaves both
\* engines, the inbox and message_seqno as they were and hands nothing to the
\* transport.
C15_ReadyPollFrame ==
    [][\A n \in Nodes :
        (deliverable_messages[n] # <<>> /\ PollCall(n)) =>
            /\ result'[n] = "Ready"
            /\ pc'[n] = "idle"
            /\ returned'[n] = Append(returned[n], Head(deliverable_messages[n]))
            /\ deliverable_messages'[n] = Tail(deliverable_messages[n])
            /\ hyparview_node' = hyparview_node
            /\ plumtree_node' = plumtree_node
            /\ message_rx' = message_rx
            /\ message_seqno' = message_seqno
            /\ net' = net]_vars

\* a node has returned two messages, the second to a poll that found it
\* waiting, with work left in its inbox
C15_Witness ==
    \E n \in Nodes :
        /\ pc[n] = "idle"
        /\ result[n] = "Ready"
        /\ Len(returned[n]) = 2
        /\ drawn[n] = returned[n]
        /\ message_rx[n] # <<>>

\* C16 as stated: every poll that makes progress (it returns a message, or it
\* was not called with nothing to do) leaves the inbox empty when it returns.
C16_ProgressPollDrainsInbox ==
    [][\A n \in Nodes :
        (PollReturns(n) /\ ~(pc[n] = "rx" /\ quiet[n])) =>
            message_rx'[n] = <<>>]_vars

\* C16, amended: every poll that gets as far as reading the inbox, that is
\* every poll not answered at once from a non-empty deliverable_messages,
\* leaves the inbox empty when it returns.
C16_InboxReadToEmpty ==
    [][\A n \in Nodes :
        (pc[n] = "rx" /\ pc'[n] = "idle") => message_rx'[n] = <<>>]_vars

\* a poll has handled the other node's gossip from its inbox and returned
\* the message, leaving the inbox empty
C16_Witness ==
    \E n \in Nodes, o \in Nodes :
        /\ o # n
        /\ pc[n] = "idle"
        /\ result[n] = "Ready"
        /\ returned[n] = <<MessageId(o, 0)>>
        /\ message_rx[n] = <<>>

\* C17: a node's local-id leaves the registry only after the node's
\* Disconnects have been handed to the transport, so that no cast is handled
\* for a local-id that is missing from the registry while its node still
\* has its Disconnects to send.
C17_LeaveBeforeDeregister ==
    [][/\ \A n \in Nodes : n \notin registry' => pc'[n] = "dropped"
       /\ \A c \in BagToSet(net) :
            (HandleCast(c) /\ c.dst \notin registry) => pc[c.dst] = "dropped"]_vars

\* C18: a broadcast call made with message_seqno at its last value halts the
\* node and does not wrap the counter: the sequence numbers a node submits to
\* the broadcast engine are strictly increasing.
C18_NoSeqnoWrap ==
    \A n \in Nodes : \A i, j \in 1..Len(submitted[n]) :
        i < j => submitted[n][i][2] < submitted[n][j][2]

\* C19: a poll call terminates: a poll that is in its loop returns.
C19_PollTerminates == \A n \in Nodes : (pc[n] = "rx") ~> (pc[n] = "idle")

\* a poll that was called with work to do has handled the last message of its
\* inbox and is about to turn its loop once more
C19_Witness ==
    \E n \in Nodes :
        /\ pc[n] = "rx"
        /\ did_something[n]
        /\ message_rx[n] = <<>>
        /\ hyparview_node[n].active # {}
        /\ returned[n] # <<>>

\* C20: the messages a node's poll has returned so far, followed by the
\* content of deliverable_messages, are the Deliver actions drawn so far from
\* the broadcast engine, in the order they were drawn; and a poll returns at
\* most one message, as its last step.
C20_DeliveriesInOrder ==
    [][\A n \in Nodes :
        /\ returned[n] \o deliverable_messages[n] = drawn[n]
        /\ returned'[n] \o deliverable_messages'[n] = drawn'[n]
        /\ returned'[n] # returned[n] =>
                /\ Len(returned'[n]) = Len(returned[n]) + 1
                /\ pc'[n] = "idle"]_vars

\* a poll drew two Deliver actions in one pass and returned the first; the
\* second waits in deliverable_messages
C20_Witness ==
    \E n \in Nodes :
        /\ Len(drawn[n]) = 2
        /\ Len(returned[n]) = 1
        /\ deliverable_messages[n] = <<drawn[n][2]>>
        /\ result[n] = "Ready"

====
